---- MODULE Spec2Model ----
(***************************************************************************)
(* A model of flexx/pyscript/functions.py: py2js (source extraction and    *)
(* renaming), js_rename, get_node_exe, evaljs and script2js.               *)
(*                                                                         *)
(* Python strings are modelled as sequences of one-character strings, so   *)
(* that str.replace, str.startswith, str.endswith, str.rstrip, str.lstrip  *)
(* and slicing are computed character by character as CPython does.        *)
(* Python's None is the value None below.                                  *)
(***************************************************************************)
EXTENDS Integers, Sequences, FiniteSets, TLC

VARIABLES
    \* ---- get_node_exe: the process and its environment
    environ,        \* os.environ.get('FLEXX_NODE_EXE'): None when unset
    NODE_EXE,       \* the module global NODE_EXE
    probes,         \* how often "nodejs -v" was executed in this process
    calls,          \* how many calls of get_node_exe were made
    ret,            \* what the last call returned (None before any call)
    err,            \* the exception the last call propagated (None: none)
    lastEnv,        \* the override as the last call read it
    lastMemo,       \* NODE_EXE when the last call began
    lastPrevRet,    \* what the call before the last one returned
    lastProbe,      \* the outcome of the probe in the last call (None: not run)
    seenOverride,   \* the last non-empty override a call has read (None: none)
    \* ---- js_rename: one call and its arguments
    rn_jscode,      \* the argument jscode
    rn_cur,         \* the argument cur_name
    rn_new,         \* the argument new_name
    rn_out,         \* the value returned (empty before the call)
    rn_pc,          \* "call" before the call, "done" after it
    \* ---- py2js: one call and its arguments
    p_ob,           \* the argument ob
    p_new,          \* the argument new_name
    p_res,          \* what the call returned or raised
    p_pc,           \* "call" before the call, "done" after it
    \* ---- evaljs: one call, and the program the Runtime is given
    ev_prog,        \* what the JavaScript program prints and evaluates to
    ev_whitespace,  \* the argument whitespace
    ev_stdout,      \* the bytes check_output returned (empty before the call)
    ev_res,         \* what the call returned or raised
    ev_pc,          \* "call" before the call, "done" after it
    \* ---- script2js: one call, the interpreter and the file system
    s_filename,     \* the argument filename
    s_namespace,    \* the argument namespace
    s_target,       \* the argument target
    s_debug,        \* __debug__: FALSE when Python runs with -O
    fs,             \* the files: path |-> bytes
    s_log,          \* the files opened and written and the Translator's runs
    s_res,          \* the exception the call raised (None: it returned)
    s_pc            \* "call" before the call, "done" after it

nodeVars == <<environ, NODE_EXE, probes, calls, ret, err, lastEnv, lastMemo,
              lastPrevRet, lastProbe, seenOverride>>
renameVars == <<rn_jscode, rn_cur, rn_new, rn_out, rn_pc>>

py2jsVars == <<p_ob, p_new, p_res, p_pc>>

evalVars == <<ev_prog, ev_whitespace, ev_stdout, ev_res, ev_pc>>
scriptVars == <<s_filename, s_namespace, s_target, s_debug, fs, s_log, s_res,
                s_pc>>

vars == <<nodeVars, renameVars, py2jsVars, evalVars, scriptVars>>

None == "None"

\* Bounds of the model.
MaxCalls == 3
MaxChunks == 3
MaxIndent == 4
MaxDecorators == 2
MaxPrints == 2

(***************************************************************************)
(* Python's str operations, on sequences of characters                     *)
(***************************************************************************)

\* s.startswith(p)
StartsWith(s, p) == Len(p) <= Len(s) /\ SubSeq(s, 1, Len(p)) = p

\* s.endswith(p)
EndsWith(s, p) ==
    Len(p) <= Len(s) /\ SubSeq(s, Len(s) - Len(p) + 1, Len(s)) = p

\* p in s
RECURSIVE In(_, _)
In(p, s) ==
    IF Len(s) < Len(p) THEN FALSE
    ELSE StartsWith(s, p) \/ In(p, Tail(s))

\* s.replace(old, new, count) for a non-empty old: the occurrences are found
\* from the left, do not overlap, and the text put in is not searched again;
\* at most count of them are replaced, all of them when count is -1.
RECURSIVE Replace(_, _, _, _)
Replace(s, old, new, count) ==
    IF count = 0 \/ Len(s) < Len(old) THEN s
    ELSE IF StartsWith(s, old)
         THEN new \o Replace(SubSeq(s, Len(old) + 1, Len(s)), old, new,
                             IF count = -1 THEN -1 ELSE count - 1)
         ELSE <<Head(s)>> \o Replace(Tail(s), old, new, count)

\* ''.join(parts)
RECURSIVE Join(_)
Join(parts) == IF parts = <<>> THEN <<>> ELSE Head(parts) \o Join(Tail(parts))

(***************************************************************************)
(* js_rename                                                               *)
(***************************************************************************)

EqFunction == <<" ", "=", " ", "f", "u", "n", "c", "t", "i", "o", "n">>
DotPrototype == <<".", "p", "r", "o", "t", "o", "t", "y", "p", "e">>
VarSp == <<"v", "a", "r", " ">>
SemiNl == <<";", "\n">>
Foo == <<"F", "o", "o">>
Bar == <<"B", "a", "r">>
NsBar == <<"n", "s", ".", "B", "a", "r">>

js_renameOnePrototype(jscode, cur_name, new_name) ==
    LET j1 == Replace(jscode, cur_name \o EqFunction, new_name \o EqFunction, 1)
        j2 == Replace(j1, cur_name \o DotPrototype, new_name \o DotPrototype, 1)
    IN  IF In(<<".">>, new_name)
        THEN Replace(j2, VarSp \o cur_name \o SemiNl, <<>>, 1)
        ELSE Replace(j2, VarSp \o cur_name \o SemiNl,
                     VarSp \o new_name \o SemiNl, 1)

js_renameKeepsVar(jscode, cur_name, new_name) ==
    LET j1 == Replace(jscode, cur_name \o EqFunction, new_name \o EqFunction, 1)
        j2 == Replace(j1, cur_name \o DotPrototype, new_name \o DotPrototype, -1)
    IN  Replace(j2, VarSp \o cur_name \o SemiNl, VarSp \o new_name \o SemiNl, 1)

js_rename(jscode, cur_name, new_name) ==
    LET j1 == Replace(jscode, cur_name \o EqFunction, new_name \o EqFunction, 1)
        j2 == Replace(j1, cur_name \o DotPrototype, new_name \o DotPrototype, -1)
    IN  IF In(<<".">>, new_name)                            \* if '.' in new_name:
        THEN Replace(j2, VarSp \o cur_name \o SemiNl, <<>>, 1)
        ELSE Replace(j2, VarSp \o cur_name \o SemiNl,
                     VarSp \o new_name \o SemiNl, 1)

\* The pieces the model builds JavaScript texts from: the three shapes the
\* renamer looks for, written for the name Foo, and text around them.
JsChunks ==
    { VarSp \o Foo \o SemiNl,
      Foo \o EqFunction,
      Foo \o DotPrototype,
      Foo,
      <<"(", ")", "{", "}", ";", "\n">>,
      <<".", "x", " ", "=", " ", "1", ";">> }

RECURSIVE SeqsUpTo(_, _)
SeqsUpTo(S, n) ==
    IF n = 0 THEN {<<>>}
    ELSE LET shorter == SeqsUpTo(S, n - 1)
         IN  shorter \cup {Append(q, x) : q \in shorter, x \in S}

\* The two texts of the spec's examples.
RenameExample ==
    VarSp \o Foo \o SemiNl \o Foo \o EqFunction \o <<"(", ")", "{", "}", ";", "\n">>
    \o Foo \o DotPrototype \o <<".", "x", " ", "=", " ", "1", ";">>
NamespaceExample ==
    VarSp \o Foo \o SemiNl \o Foo \o EqFunction \o <<"(", ")", "{", "}", ";">>

JsTexts ==
    {Join(q) : q \in SeqsUpTo(JsChunks, MaxChunks)}
    \cup {RenameExample, NamespaceExample}

\* oo occurs inside Foo: the replacement is textual, not by identifier.
CurNames == {Foo, <<"o", "o">>}
NewNames == {Bar, Foo \o Foo, NsBar}

\* One call js_rename(rn_jscode, rn_cur, rn_new).
js_rename_call ==
    /\ rn_pc = "call"
    /\ rn_out' = js_rename(rn_jscode, rn_cur, rn_new)
    /\ rn_pc' = "done"
    /\ UNCHANGED <<rn_jscode, rn_cur, rn_new, nodeVars, py2jsVars, evalVars,
                   scriptVars>>

RenameInit ==
    /\ rn_jscode \in JsTexts
    /\ rn_cur \in CurNames
    /\ rn_new \in NewNames
    /\ rn_out = <<>>
    /\ rn_pc = "call"

RenameIdle ==
    /\ rn_jscode = <<>>
    /\ rn_cur = <<>>
    /\ rn_new = <<>>
    /\ rn_out = <<>>
    /\ rn_pc = "idle"

(***************************************************************************)
(* py2js                                                                   *)
(***************************************************************************)

\* The characters str.lstrip() and str.rstrip() remove.
Whitespace == {" ", "\t", "\n", "\r"}

RECURSIVE LStrip(_)
LStrip(s) ==
    IF s # <<>> /\ Head(s) \in Whitespace THEN LStrip(Tail(s)) ELSE s

RECURSIVE RStrip(_)
RStrip(s) ==
    IF s # <<>> /\ s[Len(s)] \in Whitespace
    THEN RStrip(SubSeq(s, 1, Len(s) - 1))
    ELSE s

Spaces(n) == [i \in 1..n |-> " "]

\* An optional string argument: None, or a string.
NoName == [given |-> FALSE, val |-> <<>>]
Name(v) == [given |-> TRUE, val |-> v]
\* Python truthiness of an optional string: None and '' are falsy.
TruthyName(n) == n.given /\ n.val # <<>>

DefWord == <<"d", "e", "f">>
ClassWord == <<"c", "l", "a", "s", "s">>
VersionTag ==
    <<"p", "y", "s", "c", "r", "i", "p", "t", " ",
      "v", "e", "r", "s", "i", "o", "n", " ", "1">>

\* The source lines of the objects of the model, written without the
\* object's indentation. A decorator is one line, or a call whose arguments
\* go on over a second line.
DefStmt == <<"d", "e", "f", " ", "F", "o", "o", "(", ")", ":", "\n">>
ClassStmt == <<"c", "l", "a", "s", "s", " ", "F", "o", "o", ":", "\n">>
PassLine == <<" ", " ", " ", " ", "p", "a", "s", "s", "\n">>
DecoLine == <<"@", "d", "e", "c", "o", "\n">>
DecoOpen == <<"@", "d", "e", "c", "o", "(", "\n">>
DecoForms ==
    { <<DecoLine>>,
      <<DecoOpen, <<" ", " ", " ", " ", "x", "=", "1", ")", "\n">> >>,
      <<DecoOpen, <<" ", " ", " ", " ", "d", "e", "f", "a", "u", "l", "t", "s",
                    "=", "1", ")", "\n">> >>,
      <<DecoOpen, <<" ", " ", " ", " ", "c", "l", "a", "s", "s", "e", "s",
                    "=", "1", ")", "\n">> >> }

\* A class or function object defined in a file: its decorators, its own
\* statement and its body, indented by indent columns.
SourceObjects ==
    { [isa |-> k, name |-> Foo, source |-> TRUE, indent |-> n,
       decos |-> Join(d),
       stmt |-> IF k = "type" THEN ClassStmt ELSE DefStmt,
       body |-> <<PassLine>>, text |-> <<>>] :
      k \in {"type", "function"}, n \in 0..MaxIndent,
      d \in SeqsUpTo(DecoForms, MaxDecorators) }

\* A built-in function or class: inspect.getsourcelines raises for it.
BuiltinObjects ==
    { [isa |-> k, name |-> Foo, source |-> FALSE, indent |-> 0,
       decos |-> <<>>, stmt |-> <<>>, body |-> <<>>, text |-> <<>>] :
      k \in {"type", "function"} }

\* A str: source text given as it is.
StrObjects ==
    { [isa |-> "str", name |-> <<>>, source |-> FALSE, indent |-> 0,
       decos |-> <<>>, stmt |-> <<>>, body |-> <<>>, text |-> t] :
      t \in { DefStmt \o PassLine, ClassStmt \o PassLine,
              <<"F", "o", "o", " ", "=", " ", "3", "\n">> } }

\* Any other object (an int, say), and None.
OtherObjects ==
    { [isa |-> k, name |-> <<>>, source |-> FALSE, indent |-> 0,
       decos |-> <<>>, stmt |-> <<>>, body |-> <<>>, text |-> <<>>] :
      k \in {"int", "NoneType"} }

Objects == SourceObjects \cup BuiltinObjects \cup StrObjects \cup OtherObjects

\* inspect.getsourcelines(ob)[0] for an object that has source: the lines
\* from the first decorator to the end of the body, as they are in the file.
SourceLines(ob) ==
    LET rel == ob.decos \o <<ob.stmt>> \o ob.body
    IN  [i \in 1..Len(rel) |-> Spaces(ob.indent) \o rel[i]]

\* The external Translator, Parser(pycode).dump(): a definition of NAME
\* comes out as "var NAME;\nNAME = function () {\n};\n", a class with a
\* prototype assignment after it; text that starts indented is refused.
RECURSIVE TakeName(_)
TakeName(s) ==
    IF s = <<>> \/ Head(s) \in {"(", ":", " ", "\n"} THEN <<>>
    ELSE <<Head(s)>> \o TakeName(Tail(s))

FunctionBody ==
    <<" ", "=", " ", "f", "u", "n", "c", "t", "i", "o", "n", " ",
      "(", ")", " ", "{", "\n", "}", ";", "\n">>

TranslatorDump(pycode) ==
    IF pycode # <<>> /\ Head(pycode) \in Whitespace
    THEN [exc |-> "JSError", js |-> <<>>]
    ELSE IF StartsWith(pycode, DefWord \o <<" ">>)
    THEN LET n == TakeName(SubSeq(pycode, 5, Len(pycode)))
         IN  [exc |-> None, js |-> VarSp \o n \o SemiNl \o n \o FunctionBody]
    ELSE IF StartsWith(pycode, ClassWord \o <<" ">>)
    THEN LET n == TakeName(SubSeq(pycode, 7, Len(pycode)))
         IN  [exc |-> None,
              js |-> VarSp \o n \o SemiNl \o n \o FunctionBody
                     \o n \o DotPrototype \o <<".", "x", " ", "=", " ", "1", ";", "\n">>]
    ELSE LET n == TakeName(pycode)
         IN  [exc |-> None, js |-> VarSp \o n \o SemiNl \o pycode]

\* What a call leaves: a JSString with its attributes, the closure py2js_,
\* or an exception. pycode is the local variable as last assigned.
Raised(exc, pycode) ==
    [kind |-> "raise", exc |-> exc, js |-> <<>>, pycode |-> pycode,
     pyhash |-> <<>>]
Returned(js, pycode, hash) ==
    [kind |-> "JSString", exc |-> None, js |-> js, pycode |-> pycode,
     pyhash |-> hash]

\* while not lines[0].lstrip().startswith(thetype): lines.pop(0)
RECURSIVE SkipDecorators(_, _)
SkipDecorators(lines, thetype) ==
    IF lines = <<>> THEN [exc |-> "IndexError", lines |-> <<>>]
    ELSE IF StartsWith(LStrip(lines[1]), thetype)
         THEN [exc |-> None, lines |-> lines]
         ELSE SkipDecorators(Tail(lines), thetype)

\* The source of a class or function: indentation removed, decorators skipped.
ExtractSource(ob, thetype) ==
    LET lines == SourceLines(ob)
        indent == Len(lines[1]) - Len(LStrip(lines[1]))
        cut == [i \in 1..Len(lines) |-> SubSeq(lines[i], indent + 1, Len(lines[i]))]
        kept == SkipDecorators(cut, thetype)
    IN  [exc |-> kept.exc, pycode |-> Join(kept.lines)]

\* if new_name and thetype in ('class', 'def')
ShouldRenameAnyType(new_name, thetype) == TruthyName(new_name)

ShouldRename(new_name, thetype) ==
    TruthyName(new_name) /\ thetype \in {"class", "def"}

\* The hash, the Translator and the renaming, once pycode is known.
Transpile(ob, thetype, pycode, new_name) ==
    LET hash == <<"sha256", VersionTag \o pycode>>
        p == TranslatorDump(pycode)
    IN  IF p.exc # None THEN Raised(p.exc, pycode)
        ELSE IF ShouldRename(new_name, thetype)
        THEN IF ob.isa = "str"
             THEN Raised("AttributeError", pycode)      \* a str has no __name__
             ELSE Returned(js_rename(p.js, ob.name, new_name.val), pycode, hash)
        ELSE Returned(p.js, pycode, hash)

py2js_(ob, new_name) ==
    IF ob.isa = "str"
    THEN Transpile(ob, "str", ob.text, new_name)
    ELSE IF ob.isa \in {"type", "function"}
    THEN LET thetype == IF ob.isa = "type" THEN "class" ELSE "def"
         IN  IF ~ob.source THEN Raised("ValueError", <<>>)
             ELSE LET src == ExtractSource(ob, IF ob.isa = "type"
                                               THEN ClassWord ELSE DefWord)
                  IN  IF src.exc # None THEN Raised(src.exc, <<>>)
                      ELSE Transpile(ob, thetype, src.pycode, new_name)
    ELSE Raised("ValueError", <<>>)

\* py2js(ob, new_name): without an object it returns py2js_ itself.
py2js(ob, new_name) ==
    IF ob.isa = "NoneType"
    THEN [kind |-> "py2js_", exc |-> None, js |-> <<>>, pycode |-> <<>>,
          pyhash |-> <<>>]
    ELSE py2js_(ob, new_name)

NewNameArgs == {NoName, Name(<<>>), Name(Bar), Name(NsBar)}

\* One call py2js(p_ob, new_name=p_new).
py2js_call ==
    /\ p_pc = "call"
    /\ p_res' = py2js(p_ob, p_new)
    /\ p_pc' = "done"
    /\ UNCHANGED <<p_ob, p_new, nodeVars, renameVars, evalVars, scriptVars>>

Py2jsInit ==
    /\ p_ob \in Objects
    /\ p_new \in NewNameArgs
    /\ p_res = Raised(None, <<>>)
    /\ p_pc = "call"

Py2jsIdle ==
    /\ p_ob = CHOOSE o \in OtherObjects : o.isa = "NoneType"
    /\ p_new = NoName
    /\ p_res = Raised(None, <<>>)
    /\ p_pc = "idle"

(***************************************************************************)
(* get_node_exe                                                            *)
(***************************************************************************)

\* The values the model gives FLEXX_NODE_EXE: unset, empty, two paths.
OverrideValues == {"", "/opt/a/node", "/opt/b/node"}
EnvValues == {None} \cup OverrideValues

\* What subprocess.check_output(['nodejs', '-v']) can do: return, or raise
\* (executable missing, not executable, non-zero exit status).
ProbeOutcomes == {"ok", "FileNotFoundError", "PermissionError",
                  "CalledProcessError"}

\* Python truthiness of os.getenv's result: None and '' are falsy.
Truthy(s) == s # None /\ s # ""

\* x or y
PyOr(x, y) == IF Truthy(x) THEN x ELSE y

\* The body of get_node_exe, given the override read, the global and what the
\* probe would do if run. Yields the new global, the value returned, the
\* exception propagated and the probe outcome (None when it did not run).
GetNodeExeProbesAnyway(getenv, memo, outcome) ==
    LET n1 == PyOr(getenv, memo)
    IN  IF ~Truthy(getenv)
        THEN [exe |-> IF outcome = "ok" THEN "nodejs" ELSE "node",
              ret |-> IF outcome = "ok" THEN "nodejs" ELSE "node",
              err |-> None, probe |-> outcome]
        ELSE [exe |-> n1, ret |-> n1, err |-> None, probe |-> None]

GetNodeExeMemoFirst(getenv, memo, outcome) ==
    LET n1 == PyOr(memo, getenv)
    IN  IF n1 = None
        THEN [exe |-> IF outcome = "ok" THEN "nodejs" ELSE "node",
              ret |-> IF outcome = "ok" THEN "nodejs" ELSE "node",
              err |-> None, probe |-> outcome]
        ELSE [exe |-> n1, ret |-> n1, err |-> None, probe |-> None]

GetNodeExeNarrowExcept(getenv, memo, outcome) ==
    LET n1 == PyOr(getenv, memo)
    IN  IF n1 = None
        THEN IF outcome \in {"ok", "FileNotFoundError"}
             THEN [exe |-> IF outcome = "ok" THEN "nodejs" ELSE "node",
                   ret |-> IF outcome = "ok" THEN "nodejs" ELSE "node",
                   err |-> None, probe |-> outcome]
             ELSE [exe |-> "nodejs", ret |-> None, err |-> outcome,
                   probe |-> outcome]
        ELSE [exe |-> n1, ret |-> n1, err |-> None, probe |-> None]

GetNodeExeForgetsOverride(getenv, memo, outcome) ==
    LET n1 == PyOr(getenv, memo)
    IN  IF n1 = None
        THEN [exe |-> IF outcome = "ok" THEN "nodejs" ELSE "node",
              ret |-> IF outcome = "ok" THEN "nodejs" ELSE "node",
              err |-> None, probe |-> outcome]
        ELSE [exe |-> memo, ret |-> n1, err |-> None, probe |-> None]

GetNodeExeBody(getenv, memo, outcome) ==
    LET n1 == PyOr(getenv, memo)                 \* NODE_EXE = getenv or NODE_EXE
    IN  IF n1 = None                             \* if NODE_EXE is None:
        THEN \* NODE_EXE = 'nodejs'; the probe; except Exception: 'node'
             [exe |-> IF outcome = "ok" THEN "nodejs" ELSE "node",
              ret |-> IF outcome = "ok" THEN "nodejs" ELSE "node",
              err |-> None, probe |-> outcome]
        ELSE [exe |-> n1, ret |-> n1, err |-> None, probe |-> None]

\* The effect of one call of get_node_exe() on the process.
NodeCall(outcome) ==
    LET r == GetNodeExeBody(environ, NODE_EXE, outcome)
    IN  /\ NODE_EXE' = r.exe
        /\ ret' = r.ret
        /\ err' = r.err
        /\ lastProbe' = r.probe
        /\ probes' = IF r.probe # None THEN probes + 1 ELSE probes
        /\ calls' = calls + 1
        /\ lastEnv' = environ
        /\ lastMemo' = NODE_EXE
        /\ lastPrevRet' = ret
        /\ seenOverride' = IF Truthy(environ) THEN environ ELSE seenOverride
        /\ UNCHANGED environ

\* One call of get_node_exe().
get_node_exe ==
    /\ calls < MaxCalls
    /\ \E outcome \in ProbeOutcomes : NodeCall(outcome)
    /\ UNCHANGED <<renameVars, py2jsVars, evalVars, scriptVars>>

\* The environment: FLEXX_NODE_EXE is set, changed or unset between calls.
SetEnviron ==
    /\ \E v \in EnvValues : v # environ /\ environ' = v
    /\ UNCHANGED <<NODE_EXE, probes, calls, ret, err, lastEnv, lastMemo,
                   lastPrevRet, lastProbe, seenOverride, renameVars,
                   py2jsVars, evalVars, scriptVars>>

NodeInit ==
    /\ environ \in EnvValues
    /\ NODE_EXE = None          \* NODE_EXE = None at import
    /\ probes = 0
    /\ calls = 0
    /\ ret = None
    /\ err = None
    /\ lastEnv = None
    /\ lastMemo = None
    /\ lastPrevRet = None
    /\ lastProbe = None
    /\ seenOverride = None

NodeIdle == NodeInit /\ environ = None

(***************************************************************************)
(* bytes.decode() and str.encode(), for ASCII text                         *)
(***************************************************************************)

\* The printable ASCII characters, from code 32 to code 126 (the quote, the
\* backslash and the backtick, which no text of the model holds, by name).
Printable ==
    <<" ", "!", "<quote>", "#", "$", "%", "&", "'", "(", ")", "*", "+", ",", "-",
      ".", "/", "0", "1", "2", "3", "4", "5", "6", "7", "8", "9", ":", ";",
      "<", "=", ">", "?", "@", "A", "B", "C", "D", "E", "F", "G", "H", "I",
      "J", "K", "L", "M", "N", "O", "P", "Q", "R", "S", "T", "U", "V", "W",
      "X", "Y", "Z", "[", "<backslash>", "]", "^", "_", "<backtick>", "a", "b", "c", "d", "e",
      "f", "g", "h", "i", "j", "k", "l", "m", "n", "o", "p", "q", "r", "s",
      "t", "u", "v", "w", "x", "y", "z", "{", "|", "}", "~">>

Chr(b) ==
    IF b = 9 THEN "\t" ELSE IF b = 10 THEN "\n" ELSE Printable[b - 31]

Ord(c) ==
    IF c = "\t" THEN 9 ELSE IF c = "\n" THEN 10
    ELSE 31 + CHOOSE i \in 1..Len(Printable) : Printable[i] = c

Decode(bytes) == [i \in 1..Len(bytes) |-> Chr(bytes[i])]
Encode(str) == [i \in 1..Len(str) |-> Ord(str[i])]

(***************************************************************************)
(* evaljs                                                                  *)
(***************************************************************************)

Undefined == <<"u", "n", "d", "e", "f", "i", "n", "e", "d">>
\* The 9 of res[:-9].
UndefinedLen == 9

\* s.replace(c, '') for one character c
RemoveChar(s, c) == Replace(s, <<c>>, <<>>, -1)

\* What evaljs makes of the Runtime's standard output.
EvalResultKeepsBlank(stdout, whitespace) ==
    LET res0 == RStrip(Decode(stdout))
        res1 == IF EndsWith(res0, Undefined)
                THEN SubSeq(res0, 1, Len(res0) - UndefinedLen)
                ELSE res0
    IN  IF ~whitespace
        THEN RemoveChar(RemoveChar(RemoveChar(res1, "\n"), "\t"), " ")
        ELSE res1

EvalResult(stdout, whitespace) ==
    LET res0 == RStrip(Decode(stdout))              \* res.decode().rstrip()
        res1 == IF EndsWith(res0, Undefined)        \* res[:-9].rstrip()
                THEN RStrip(SubSeq(res0, 1, Len(res0) - UndefinedLen))
                ELSE res0
    IN  IF ~whitespace
        THEN RemoveChar(RemoveChar(RemoveChar(res1, "\n"), "\t"), " ")
        ELSE res1

\* The Runtime, node --use_strict -p -e jscode: the program's own output
\* (console.log) comes first, then -p prints the value the program
\* evaluates to and a newline. A program that ends in a statement without a
\* value of its own ("statement") has undefined printed for it; a program
\* that ends in an expression ("expression") has that expression's value
\* printed, which may itself be undefined or a text that ends in undefined.
PrintedLines ==
    { <<"5", "\n">>, Undefined \o <<"\n">>, <<"a", " ", "b", "\t", "c", "\n">> }
Programs ==
    { [printed |-> Join(q), kind |-> f[1], value |-> f[2]] :
      q \in SeqsUpTo(PrintedLines, MaxPrints),
      f \in { <<"statement", Undefined>>,
              <<"expression", <<"5">> >>,
              <<"expression", Undefined>>,
              <<"expression", <<"i", "s", " ">> \o Undefined>>,
              <<"expression", <<"a", " ", "b", "\t", "c">> >>,
              <<"expression", <<" ">> >> } }

RuntimeStdout(prog) == Encode(prog.printed \o prog.value \o <<"\n">>)

\* What running the Runtime can do: return its output, or raise (the
\* executable is missing, the program exits with an error).
RunOutcomes == {"ok", "FileNotFoundError", "CalledProcessError"}

\* One call evaljs(jscode, ev_whitespace); get_node_exe() is called in it.
evaljs ==
    /\ ev_pc = "call"
    /\ \E outcome \in ProbeOutcomes : NodeCall(outcome)
    /\ \E run \in RunOutcomes :
         IF run = "ok"
         THEN /\ ev_stdout' = RuntimeStdout(ev_prog)
              /\ ev_res' = [exc |-> None,
                            res |-> EvalResult(RuntimeStdout(ev_prog), ev_whitespace)]
         ELSE /\ ev_stdout' = <<>>
              /\ ev_res' = [exc |-> run, res |-> <<>>]
    /\ ev_pc' = "done"
    /\ UNCHANGED <<ev_prog, ev_whitespace, renameVars, py2jsVars, scriptVars>>

EvalInit ==
    /\ ev_prog \in Programs
    /\ ev_whitespace \in BOOLEAN
    /\ ev_stdout = <<>>
    /\ ev_res = [exc |-> None, res |-> <<>>]
    /\ ev_pc = "call"

EvalIdle ==
    /\ ev_prog = [printed |-> <<>>, kind |-> "statement", value |-> Undefined]
    /\ ev_whitespace = TRUE
    /\ ev_stdout = <<>>
    /\ ev_res = [exc |-> None, res |-> <<>>]
    /\ ev_pc = "idle"

(***************************************************************************)
(* script2js                                                               *)
(***************************************************************************)

DotPy == <<".", "p", "y">>
DotJs == <<".", "j", "s">>
Banner ==
    <<"/", "*", " ", "D", "o", " ", "n", "o", "t", " ", "e", "d", "i", "t",
      ",", " ", "a", "u", "t", "o", "g", "e", "n", "e", "r", "a", "t", "e",
      "d", " ", "b", "y", " ", "f", "l", "e", "x", "x", ".", "p", "y", "s",
      "c", "r", "i", "p", "t", " ", "*", "/", "\n", "\n">>

\* The index of the last "/" of p, 0 when it has none.
RECURSIVE LastSlash(_)
LastSlash(p) ==
    IF p = <<>> THEN 0
    ELSE IF p[Len(p)] = "/" THEN Len(p)
    ELSE LastSlash(SubSeq(p, 1, Len(p) - 1))

RECURSIVE RStripSlash(_)
RStripSlash(p) ==
    IF p # <<>> /\ p[Len(p)] = "/" THEN RStripSlash(SubSeq(p, 1, Len(p) - 1))
    ELSE p

\* os.path.split(p), posixpath
PathSplit(p) ==
    LET i == LastSlash(p)
        head == SubSeq(p, 1, i)
        tail == SubSeq(p, i + 1, Len(p))
    IN  <<IF RStripSlash(head) = <<>> THEN head ELSE RStripSlash(head), tail>>

\* os.path.join(a, b), posixpath
PathJoin(a, b) ==
    IF StartsWith(b, <<"/">>) THEN b
    ELSE IF a = <<>> \/ EndsWith(a, <<"/">>) THEN a \o b
    ELSE a \o <<"/">> \o b

\* fname[:-3]
DropLast3(s) == SubSeq(s, 1, Len(s) - 3)

\* The body of script2js: the exception it ends with (None: it returns),
\* the events in their order, and the files it leaves. The assert statement
\* is compiled only when __debug__ is true.
Script2js(filename, namespace, target, debug, files) ==
    IF debug /\ ~EndsWith(filename, DotPy)
    THEN [exc |-> "AssertionError", log |-> <<>>, files |-> files]
    ELSE LET log1 == << <<"open-r", filename>> >>
         IN  IF filename \notin DOMAIN files
             THEN [exc |-> "FileNotFoundError", log |-> log1, files |-> files]
             ELSE
             LET pycode == Decode(files[filename])
                 p == TranslatorDump(pycode)
                 log2 == Append(log1, <<"dump", pycode>>)
             IN  IF p.exc # None
                 THEN [exc |-> p.exc, log |-> log2, files |-> files]
                 ELSE
                 LET jscode == Banner \o p.js
                     parts == PathSplit(filename)
                     filename2 ==
                         IF ~target.given
                         THEN PathJoin(parts[1], DropLast3(parts[2]) \o DotJs)
                         ELSE target.val
                 IN  [exc |-> None,
                      log |-> log2 \o << <<"open-w", filename2>>,
                                         <<"write", filename2>> >>,
                      files |-> [q \in DOMAIN files \cup {filename2} |->
                                   IF q = filename2 THEN Encode(jscode)
                                   ELSE files[q]]]

Filenames ==
    { <<"m", ".", "p", "y">>,
      <<"d", "/", "m", ".", "p", "y">>,
      <<"m", ".", "t", "x", "t">>,
      <<"m", ".", "p", "y", "c">>,
      <<"p", "y">> }
Targets == {NoName, Name(<<"o", ".", "j", "s">>)}
Namespaces == {NoName, Name(<<"n", "s">>)}
\* What the file named may hold: Python source, or text the Translator refuses.
FileTexts == { DefStmt \o PassLine, PassLine }

\* One call script2js(s_filename, s_namespace, s_target).
script2js ==
    /\ s_pc = "call"
    /\ LET r == Script2js(s_filename, s_namespace, s_target, s_debug, fs)
       IN  /\ s_res' = r.exc
           /\ s_log' = r.log
           /\ fs' = r.files
    /\ s_pc' = "done"
    /\ UNCHANGED <<s_filename, s_namespace, s_target, s_debug, nodeVars,
                   renameVars, py2jsVars, evalVars>>

ScriptInit ==
    /\ s_filename \in Filenames
    /\ s_namespace \in Namespaces
    /\ s_target \in Targets
    /\ s_debug \in BOOLEAN
    /\ \/ fs = <<>>
       \/ \E t \in FileTexts : fs = [q \in {s_filename} |-> Encode(t)]
    /\ s_log = <<>>
    /\ s_res = None
    /\ s_pc = "call"

ScriptIdle ==
    /\ s_filename = <<>>
    /\ s_namespace = NoName
    /\ s_target = NoName
    /\ s_debug = TRUE
    /\ fs = <<>>
    /\ s_log = <<>>
    /\ s_res = None
    /\ s_pc = "idle"

(***************************************************************************)
(* The specifications                                                      *)
(***************************************************************************)

\* get_node_exe called again and again while the environment changes.
Init == NodeInit /\ RenameIdle /\ Py2jsIdle /\ EvalIdle /\ ScriptIdle
Next == get_node_exe \/ SetEnviron
Spec == Init /\ [][Next]_vars

\* js_rename applied to every text and pair of names of the model.
RenameSpecInit == NodeIdle /\ RenameInit /\ Py2jsIdle /\ EvalIdle /\ ScriptIdle
RenameNext == js_rename_call
SpecRename == RenameSpecInit /\ [][RenameNext]_vars

\* py2js applied to every object and new_name of the model.
Py2jsSpecInit == NodeIdle /\ RenameIdle /\ Py2jsInit /\ EvalIdle /\ ScriptIdle
Py2jsNext == py2js_call
SpecPy2js == Py2jsSpecInit /\ [][Py2jsNext]_vars

\* evaljs applied to every program of the model, in any environment.
EvalSpecInit == NodeInit /\ RenameIdle /\ Py2jsIdle /\ EvalInit /\ ScriptIdle
EvalNext == evaljs
SpecEval == EvalSpecInit /\ [][EvalNext]_vars

\* script2js applied to every file name of the model.
ScriptSpecInit == NodeIdle /\ RenameIdle /\ Py2jsIdle /\ EvalIdle /\ ScriptInit
ScriptNext == script2js
SpecScript == ScriptSpecInit /\ [][ScriptNext]_vars

(***************************************************************************)
(* The claims                                                              *)
(***************************************************************************)

\* C1: every call of get_node_exe made while FLEXX_NODE_EXE is set and not
\* empty returns the override as it is then, whatever was memoized before,
\* and leaves it as the memoized value.
C1_OverrideWins ==
    calls > 0 /\ Truthy(lastEnv) =>
        ret = lastEnv /\ NODE_EXE = lastEnv /\ err = None

\* A call that read an override while the probe's result was memoized.
C1_Witness ==
    /\ calls > 0
    /\ Truthy(lastEnv)
    /\ lastMemo \in {"nodejs", "node"}
    /\ ret = lastEnv
    /\ NODE_EXE = lastEnv

\* C2: over all the calls of a process "nodejs -v" is run at most once, and
\* never in a call that reads a non-empty override or finds a value memoized.
C2_ProbeAtMostOnce ==
    /\ probes <= 1
    /\ lastProbe # None => ~Truthy(lastEnv) /\ lastMemo = None

\* The probe has run, and two later calls, the last without override, did
\* not run it again.
C2_Witness ==
    /\ probes = 1
    /\ calls >= 3
    /\ ~Truthy(lastEnv)
    /\ lastProbe = None

\* C3: a call without override and with nothing memoized returns and
\* memoizes 'node' when the probe raises, 'nodejs' when it does not, and
\* never propagates the probe's error.
C3_ProbeFallback ==
    calls > 0 /\ ~Truthy(lastEnv) /\ lastMemo = None =>
        /\ lastProbe # None
        /\ err = None
        /\ ret = IF lastProbe = "ok" THEN "nodejs" ELSE "node"
        /\ NODE_EXE = ret

\* The probe exited with a non-zero status and the call returned 'node'.
C3_Witness ==
    /\ calls > 0
    /\ ~Truthy(lastEnv)
    /\ lastMemo = None
    /\ lastProbe = "CalledProcessError"
    /\ ret = "node"
    /\ NODE_EXE = "node"
    /\ err = None

\* C10: a call without override that finds a value memoized returns what the
\* call before it returned and leaves the memoized value as it is; so once a
\* call has read an override v, the calls made after the override is removed
\* keep returning v, and no call from then on runs the probe.
C10_MemoReturned ==
    /\ calls > 0 /\ ~Truthy(lastEnv) /\ lastMemo # None =>
           ret = lastPrevRet /\ NODE_EXE = lastMemo /\ lastProbe = None
    /\ seenOverride # None =>
           /\ lastProbe = None
           /\ calls > 0 /\ ~Truthy(lastEnv) => ret = seenOverride

\* An override was read, then removed, and the next call still returned it.
C10_Witness ==
    /\ calls >= 2
    /\ environ = None
    /\ lastEnv = None
    /\ seenOverride = "/opt/a/node"
    /\ ret = "/opt/a/node"
    /\ probes = 0

\* ---- what "the first occurrence" and "every occurrence" of a pattern are

\* pat occurs in s at index i
Occurs(s, pat, i) ==
    /\ i \in 1..(Len(s) - Len(pat) + 1)
    /\ SubSeq(s, i, i + Len(pat) - 1) = pat

Occurrences(s, pat) == {i \in 1..Len(s) : Occurs(s, pat, i)}

\* s with the first occurrence of pat replaced by rep; s when there is none
FirstReplaced(s, pat, rep) ==
    IF Occurrences(s, pat) = {} THEN s
    ELSE LET i == CHOOSE k \in Occurrences(s, pat) :
                      \A j \in Occurrences(s, pat) : k <= j
         IN  SubSeq(s, 1, i - 1) \o rep \o SubSeq(s, i + Len(pat), Len(s))

\* The occurrences of pat taken from the left that do not overlap an
\* occurrence taken before them.
Taken(s, pat) ==
    CHOOSE T \in SUBSET Occurrences(s, pat) :
        \A i \in Occurrences(s, pat) :
            i \in T <=> ~\E j \in T : j < i /\ i < j + Len(pat)

RECURSIVE Spliced(_, _, _, _, _)
Spliced(s, T, n, rep, i) ==
    IF i > Len(s) THEN <<>>
    ELSE IF i \in T THEN rep \o Spliced(s, T, n, rep, i + n)
    ELSE <<s[i]>> \o Spliced(s, T, n, rep, i + 1)

\* s with every occurrence of pat replaced by rep
EveryReplaced(s, pat, rep) == Spliced(s, Taken(s, pat), Len(pat), rep, 1)

\* The text after the first two replacements both claims speak of.
FunctionAndPrototypeRenamed ==
    EveryReplaced(
        FirstReplaced(rn_jscode, rn_cur \o EqFunction, rn_new \o EqFunction),
        rn_cur \o DotPrototype, rn_new \o DotPrototype)

RenameExpected ==
    VarSp \o Bar \o SemiNl \o Bar \o EqFunction \o <<"(", ")", "{", "}", ";", "\n">>
    \o Bar \o DotPrototype \o <<".", "x", " ", "=", " ", "1", ";">>

\* C4: for a new name without a dot, js_rename's result is jscode with the
\* first "<old> = function" replaced, then every "<old>.prototype" replaced,
\* then the first "var <old>;\n" replaced, each by the same text for the new
\* name; and the spec's example text renamed from Foo to Bar is its example
\* result.
C4_RenameReplaces ==
    rn_pc = "done" /\ ~In(<<".">>, rn_new) =>
        /\ rn_out = FirstReplaced(FunctionAndPrototypeRenamed,
                                  VarSp \o rn_cur \o SemiNl,
                                  VarSp \o rn_new \o SemiNl)
        /\ rn_jscode = RenameExample /\ rn_cur = Foo /\ rn_new = Bar =>
               rn_out = RenameExpected

\* The spec's example, renamed.
C4_Witness ==
    /\ rn_pc = "done"
    /\ rn_jscode = RenameExample
    /\ rn_cur = Foo
    /\ rn_new = Bar
    /\ rn_out = RenameExpected

\* C5, as amended: for a new name with a dot, js_rename removes the first
\* "var <old>;\n" instead of replacing it, the function and the prototypes
\* being renamed as always; the spec's example gives "ns.Bar = function(){};".
C5_NamespacedDropsVar ==
    rn_pc = "done" /\ In(<<".">>, rn_new) =>
        /\ rn_out = FirstReplaced(FunctionAndPrototypeRenamed,
                                  VarSp \o rn_cur \o SemiNl, <<>>)
        /\ rn_jscode = NamespaceExample /\ rn_cur = Foo /\ rn_new = NsBar =>
               rn_out = NsBar \o EqFunction \o <<"(", ")", "{", "}", ";">>

\* The spec's namespaced example, renamed.
C5_Witness ==
    /\ rn_pc = "done"
    /\ rn_jscode = NamespaceExample
    /\ rn_cur = Foo
    /\ rn_new = NsBar
    /\ rn_out = NsBar \o EqFunction \o <<"(", ")", "{", "}", ";">>

\* C5, as claimed: the same, but the spec's example gives
\* "Foo = function(){};", the function's name left as it was.
C5_AsClaimed ==
    rn_pc = "done" /\ In(<<".">>, rn_new) =>
        /\ rn_out = FirstReplaced(FunctionAndPrototypeRenamed,
                                  VarSp \o rn_cur \o SemiNl, <<>>)
        /\ rn_jscode = NamespaceExample /\ rn_cur = Foo /\ rn_new = NsBar =>
               rn_out = Foo \o EqFunction \o <<"(", ")", "{", "}", ";">>

\* C6: for every function or class whose source is found, with any number
\* of decorator lines before it and any indentation, the extraction ends
\* with the text of the object's own statement and body, the statement first
\* and at column 0, and no decorator line in it.
C6_ExtractionYieldsStatement ==
    p_pc = "done" /\ p_ob.isa \in {"type", "function"} /\ p_ob.source =>
        /\ p_res.exc # "IndexError"
        /\ p_res.pycode = p_ob.stmt \o Join(p_ob.body)

\* C7: script2js with a file name that does not end in ".py" fails with the
\* assertion's error before anything is done: no file is opened, the
\* Translator is not run, nothing is written.
C7_InvalidExtensionBeforeIO ==
    s_pc = "done" /\ ~EndsWith(s_filename, DotPy) =>
        s_res = "AssertionError" /\ s_log = <<>>

\* ---- what "stripped of trailing whitespace" is

\* r is s without the whitespace at its end
IsRStripOf(r, s) ==
    /\ Len(r) <= Len(s)
    /\ SubSeq(s, 1, Len(r)) = r
    /\ \A i \in (Len(r) + 1)..Len(s) : s[i] \in Whitespace
    /\ r = <<>> \/ r[Len(r)] \notin Whitespace

\* The Runtime's output of the call, decoded and stripped.
StrippedOutput == RStrip(Decode(ev_stdout))

\* What the claim says evaljs returns for every output of the Runtime.
OneUndefinedStripped ==
    /\ IsRStripOf(StrippedOutput, Decode(ev_stdout))
    /\ IF EndsWith(StrippedOutput, Undefined)
       THEN IsRStripOf(ev_res.res,
                       SubSeq(StrippedOutput, 1, Len(StrippedOutput) - 9))
       ELSE ev_res.res = StrippedOutput
    /\ Decode(ev_stdout) = <<"5", "\n">> \o Undefined \o <<"\n">> =>
           ev_res.res = <<"5">>

C9_StrNeverRenamed ==
    p_pc = "done" /\ p_ob.isa = "str" =>
        /\ p_res.exc = TranslatorDump(p_ob.text).exc
        /\ p_res.js = TranslatorDump(p_ob.text).js
        /\ p_res = py2js(p_ob, NoName)

\* A str translated with a new_name, the output holding what the renamer
\* would have changed.
C9_Witness ==
    /\ p_pc = "done"
    /\ p_ob.isa = "str"
    /\ p_new = Name(Bar)
    /\ p_res.kind = "JSString"
    /\ In(Foo \o EqFunction, p_res.js)

====
